---- MODULE Spec2Model ----
(***************************************************************************)
(* Model of the streaming Intel HEX decoder of components/ihex (ihex.c,    *)
(* ihex.h).  The Reader is fed one byte per ihex_Put call; the data        *)
(* callback, the statuses and every lexer field are modelled with the     *)
(* integer widths of the C types.                                          *)
(***************************************************************************)
EXTENDS Integers, Sequences, FiniteSets, TLC

\* ------------------------------------------------------------------------
\* Bounds of the model (not program constants)
\* ------------------------------------------------------------------------
MaxLen == 2
MaxLines == 2
\* cells of the arrays the application gives to the FIFOs
MaxSize == 2

\* ------------------------------------------------------------------------
\* Program constants
\* ------------------------------------------------------------------------
NUM_BYTE_COUNT_DIGITS == 2
NUM_ADDRESS_DIGITS == 4
NUM_TYPE_DIGITS == 2
NUM_CHECK_SUM_DIGITS == 2

IHEX_TYPE_00_DATA_RECORD == 0
IHEX_TYPE_01_END_OF_FILE_RECORD == 1
IHEX_TYPE_02_EXTENDED_SEGMENT_ADDRESS_RECORD == 2
IHEX_TYPE_03_START_SEGMENT_ADDRESS_RECORD == 3
IHEX_TYPE_04_EXTENDED_LINEAR_ADDRESS_RECORD == 4

ihex_tLexerState ==
  {"WAIT_COLON", "WAIT_BYTE_COUNT", "WAIT_ADDRESS", "WAIT_TYPE", "WAIT_DATA", "WAIT_CHECK_SUM"}

ihex_tMessage ==
  {"CONTINUE", "END", "INVALID_INPUT_DATA", "CHECK_SUM_ERROR", "VERIFICATION_ERROR"}

\* the value of reader->funcData: NULL or the address of the user's callback
NULL == "NULL"
ihex_tDataCallback == {NULL, "funcData"}

\* ASCII codes of the characters the code compares against
CH_LF == 10
CH_CR == 13
CH_0 == 48
CH_9 == 57
CH_COLON == 58
CH_A == 65
CH_F == 70
CH_a == 97
CH_f == 102

\* ------------------------------------------------------------------------
\* Fixed-width integer arithmetic
\* ------------------------------------------------------------------------
Pow2(n) == 2 ^ n
U8(x) == x % 256
U16(x) == x % 65536

(* A uint32_t value is the pair <<high 16 bits, low 16 bits>>: the values  *)
(* of ext_offset do not fit the integers of the model checker.             *)
W32(hi, lo) == <<hi, lo>>
Zero32 == W32(0, 0)

\* a + n for a uint32_t a and 0 <= n < 65536, modulo 2^32
Add32(a, n) == W32(U16(a[1] + ((a[2] + n) \div 65536)), U16(a[2] + n))

RECURSIVE BitOr(_, _)
BitOr(a, b) ==
  IF a = 0 THEN b
  ELSE IF b = 0 THEN a
  ELSE (IF (a % 2 = 1) \/ (b % 2 = 1) THEN 1 ELSE 0) + 2 * BitOr(a \div 2, b \div 2)

RECURSIVE BitAnd(_, _)
BitAnd(a, b) ==
  IF a = 0 \/ b = 0 THEN 0
  ELSE (IF (a % 2 = 1) /\ (b % 2 = 1) THEN 1 ELSE 0) + 2 * BitAnd(a \div 2, b \div 2)

\* ~m restricted to 16 bits
BitNot16(m) == 65535 - m

(* v << n evaluated in a 32-bit type.  For n < 32 the result is the       *)
(* wrapped product.  For n >= 32 the C shift is undefined; the builds of   *)
(* the program produce either zero (shifters that saturate) or the shift   *)
(* by n mod 32 (shifters that use the low five bits of the count): the     *)
(* mode names which.                                                       *)
ShiftModes(n) == IF n < 32 THEN {"exact"} ELSE {"zero", "mod32"}

\* v << n for 0 <= v < 65536 converted to a 32-bit type
ShiftLeft32(v, n, mode) ==
  LET k == n % 32
  IN  IF mode = "zero" THEN Zero32
      ELSE IF k >= 16 THEN W32(U16((v % Pow2(32 - k)) * Pow2(k - 16)), 0)
      ELSE W32(v \div Pow2(16 - k), (v % Pow2(16 - k)) * Pow2(k))

\* a | b and a << 4 on uint32_t
Or32(a, b) == W32(BitOr(a[1], b[1]), BitOr(a[2], b[2]))
ShiftLeft4(a) == W32((a[1] % 4096) * 16 + (a[2] \div 4096), (a[2] % 4096) * 16)

\* ------------------------------------------------------------------------
\* ihex.c : character helpers
\* ------------------------------------------------------------------------
ihex_IsValidData(data) ==
  \/ data = CH_COLON
  \/ (data >= CH_0 /\ data <= CH_9)
  \/ (data >= CH_A /\ data <= CH_F)
  \/ (data >= CH_a /\ data <= CH_f)

\* mutant: the lower-case branch forgets the + 10
ihex_CharToValue_LowerCase(data) ==
  IF data >= CH_0 /\ data <= CH_9 THEN data - CH_0
  ELSE IF data >= CH_A /\ data <= CH_F THEN data - CH_A + 10
  ELSE IF data >= CH_a /\ data <= CH_f THEN data - CH_a
  ELSE -1

ihex_CharToValue(data) ==
  IF data >= CH_0 /\ data <= CH_9 THEN data - CH_0
  ELSE IF data >= CH_A /\ data <= CH_F THEN data - CH_A + 10
  ELSE IF data >= CH_a /\ data <= CH_f THEN data - CH_a + 10
  ELSE -1

(* ihex_InsertDigit: the set of uint16_t values the function can return.   *)
(* Both shifts use the count digit_pos * 4.                                *)
ihex_InsertDigit(src_val, nibble_data, digit_pos) ==
  { LET mask == ShiftLeft32(15, digit_pos * 4, mode)[2]
        new_data == ShiftLeft32(BitAnd(nibble_data, 15), digit_pos * 4, mode)[2]
        dst_val == BitAnd(src_val, BitNot16(mask))
    IN  BitOr(dst_val, BitAnd(new_data, mask)) : mode \in ShiftModes(digit_pos * 4) }

\* ------------------------------------------------------------------------
\* ihex.c : the token stream (checksum, extension base, data callback)
\* ------------------------------------------------------------------------
\* an outcome of a call: the Reader afterwards, the returned message and the
\* callback invocations made during the call
Outcome(r, m, c) == [reader |-> r, message |-> m, calls |-> c]

ihex_SetNextState(reader, next_state, num_expected_digits) ==
  [reader EXCEPT !.lexer.state = next_state,
                 !.lexer.num_expected_characters = U16(num_expected_digits)]

\* mutant: the index of the byte within the record is left out
ihex_DataAddress_NoIndex(lexer) ==
  Add32(lexer.ext_offset, lexer.record_data.load_offset)

\* line 262: the address handed to the callback (uint32_t arithmetic)
ihex_DataAddress(lexer) ==
  Add32(Add32(lexer.ext_offset, lexer.record_data.load_offset), lexer.rec_byte_offset)

\* mutant: the status of the callback is dropped
ihex_DataMessage_Dropped(funcData, cb_ret) == "CONTINUE"

\* lines 261-262: the status of a type-00 payload byte is the callback's
ihex_DataMessage(funcData, cb_ret) ==
  IF funcData # NULL THEN cb_ret ELSE "CONTINUE"

\* mutant: the linear record starts at the slot of the segment record
ihex_ExtOffsetStartPos_Low(rectyp) == 1

\* lines 244-253: the byte slot the first payload byte of an extension record fills
ihex_ExtOffsetStartPos(rectyp) ==
  IF rectyp = IHEX_TYPE_02_EXTENDED_SEGMENT_ADDRESS_RECORD THEN 1 ELSE 3

\* lines 267 and 276: ext_offset |= (uint32_t)token_data << (8 * ext_offset_byte_pos)
ihex_ExtOffsetOr(ext_offset, token_data, byte_pos) ==
  { Or32(ext_offset, ShiftLeft32(token_data, 8 * byte_pos, mode)) :
      mode \in ShiftModes(8 * byte_pos) }

\* mutant: the scaling is applied after every byte
ihex_SegmentScale_Always(ext_offset, byte_pos) == ShiftLeft4(ext_offset)

\* lines 269-270: the segment value is scaled when the byte at position 0 is in
ihex_SegmentScale(ext_offset, byte_pos) ==
  IF byte_pos = 0 THEN ShiftLeft4(ext_offset) ELSE ext_offset

\* mutant: one's complement instead of two's complement
ihex_FinalizeChecksum_OnesComplement(calc_chksum) == U8(255 - calc_chksum)

\* line 283: calc_chksum = ~calc_chksum + 1 (stored in a uint8_t)
ihex_FinalizeChecksum(calc_chksum) == U8((255 - calc_chksum) + 1)

\* mutant: the checksum is compared before the record type is looked at
ihex_ChecksumMessage_SumFirst(rectyp, calc_chksum, target_check_sum) ==
  IF calc_chksum # target_check_sum THEN "CHECK_SUM_ERROR"
  ELSE IF rectyp = IHEX_TYPE_01_END_OF_FILE_RECORD THEN "END"
  ELSE "CONTINUE"

\* lines 285-288: the status of a completed record
ihex_ChecksumMessage(rectyp, calc_chksum, target_check_sum) ==
  IF rectyp = IHEX_TYPE_01_END_OF_FILE_RECORD THEN "END"
  ELSE IF calc_chksum # target_check_sum THEN "CHECK_SUM_ERROR"
  ELSE "CONTINUE"

\* cb_ret is the status the user's callback returns if it is invoked
\* mutant: a byte the callback has refused is not counted
ihex_CountByte_UnlessError(reader, message) ==
  IF message = "CONTINUE"
    THEN [reader EXCEPT !.lexer.rec_byte_offset = U16(@ + 1)]
    ELSE reader

\* line 278: the payload byte is counted, whatever message the callback returned
ihex_CountByte(reader, message) ==
  [reader EXCEPT !.lexer.rec_byte_offset = U16(@ + 1)]

\* mutant: every type the decoder does not know is treated as data
ihex_IsDataRecord_OrUnknown(rectyp) ==
  rectyp \notin {IHEX_TYPE_01_END_OF_FILE_RECORD,
                 IHEX_TYPE_02_EXTENDED_SEGMENT_ADDRESS_RECORD,
                 IHEX_TYPE_04_EXTENDED_LINEAR_ADDRESS_RECORD}

\* the test that sends a payload byte to the callback
ihex_IsDataRecord(rectyp) == rectyp = IHEX_TYPE_00_DATA_RECORD

\* mutant: the extension record adds its bytes to the offset it finds
ihex_StartExtOffset_Kept(reader, rectyp) ==
  [reader EXCEPT !.lexer.ext_offset_byte_pos = ihex_ExtOffsetStartPos(rectyp)]

\* the type field of an extension record is complete: the offset is cleared and
\* the position of its first payload byte is set
ihex_StartExtOffset(reader, rectyp) ==
  [reader EXCEPT !.lexer.ext_offset = Zero32,
                 !.lexer.ext_offset_byte_pos = ihex_ExtOffsetStartPos(rectyp)]

ihex_LexerTokenStream(reader, token_type, token_data, cb_ret) ==
  LET lx == reader.lexer
      rectyp == lx.record_data.rectyp
  IN
  CASE token_type = "RECORD_MARK" ->
         {Outcome([reader EXCEPT !.lexer.calc_chksum = 0,
                                 !.lexer.rec_byte_offset = 0], "CONTINUE", <<>>)}
    [] token_type = "RECLEN" ->
         {Outcome([reader EXCEPT !.lexer.calc_chksum = U8(lx.calc_chksum + token_data)],
                  "CONTINUE", <<>>)}
    [] token_type = "LOAD_OFFSET" ->
         {Outcome([reader EXCEPT !.lexer.calc_chksum =
                      U8(lx.calc_chksum + (token_data \div 256) + BitAnd(token_data, 255))],
                  "CONTINUE", <<>>)}
    [] token_type = "RECTYP" ->
         LET r1 == [reader EXCEPT !.lexer.calc_chksum = U8(lx.calc_chksum + token_data)]
         IN  IF rectyp \in {IHEX_TYPE_02_EXTENDED_SEGMENT_ADDRESS_RECORD,
                            IHEX_TYPE_04_EXTENDED_LINEAR_ADDRESS_RECORD}
             THEN {Outcome(ihex_StartExtOffset(r1, rectyp), "CONTINUE", <<>>)}
             ELSE {Outcome(r1, "CONTINUE", <<>>)}
    [] token_type = "DATA" ->
         LET rc == [reader EXCEPT !.lexer.calc_chksum = U8(lx.calc_chksum + token_data)]
             r1 == ihex_CountByte(rc, "CONTINUE")
         IN  IF ihex_IsDataRecord(rectyp)
             THEN {Outcome(ihex_CountByte(rc, ihex_DataMessage(reader.funcData, cb_ret)),
                           ihex_DataMessage(reader.funcData, cb_ret),
                           IF reader.funcData # NULL
                           THEN << [address |-> ihex_DataAddress(lx), data |-> U8(token_data)] >>
                           ELSE <<>>)}
             ELSE IF rectyp = IHEX_TYPE_02_EXTENDED_SEGMENT_ADDRESS_RECORD
             THEN { Outcome([r1 EXCEPT !.lexer.ext_offset =
                                          ihex_SegmentScale(ored, lx.ext_offset_byte_pos),
                                       !.lexer.ext_offset_byte_pos = U8(lx.ext_offset_byte_pos - 1)],
                            "CONTINUE", <<>>) :
                      ored \in ihex_ExtOffsetOr(lx.ext_offset, token_data, lx.ext_offset_byte_pos) }
             ELSE IF rectyp = IHEX_TYPE_04_EXTENDED_LINEAR_ADDRESS_RECORD
             THEN { Outcome([r1 EXCEPT !.lexer.ext_offset = ored,
                                       !.lexer.ext_offset_byte_pos = U8(lx.ext_offset_byte_pos - 1)],
                            "CONTINUE", <<>>) :
                      ored \in ihex_ExtOffsetOr(lx.ext_offset, token_data, lx.ext_offset_byte_pos) }
             ELSE {Outcome(r1, "CONTINUE", <<>>)}
    [] token_type = "CHKSUM" ->
         LET sum == ihex_FinalizeChecksum(lx.calc_chksum)
         IN  {Outcome([reader EXCEPT !.lexer.calc_chksum = sum],
                      ihex_ChecksumMessage(rectyp, sum, lx.record_data.target_check_sum), <<>>)}

\* ------------------------------------------------------------------------
\* ihex.c : the lexer (one case per state)
\* ------------------------------------------------------------------------
ZeroRecordData ==
  [record_mark |-> 0, reclen |-> 0, load_offset |-> 0, rectyp |-> 0, data |-> 0,
   target_check_sum |-> 0]

DecExpected_Kept(reader) == reader

\* lines 84, 104, 124, 150, 176: num_expected_characters-- on a uint16_t
DecExpected(reader) ==
  [reader EXCEPT !.lexer.num_expected_characters = U16(@ - 1)]

ihex_Lexer(reader, data, cb_ret) ==
  LET st == reader.lexer.state
      r0 == DecExpected(reader)
      num == r0.lexer.num_expected_characters
      temp_digit == ihex_CharToValue(data)
      rd == reader.lexer.record_data
  IN
  CASE st = "WAIT_COLON" ->
         IF data # CH_COLON THEN {Outcome(reader, "CONTINUE", <<>>)}
         ELSE LET r1 == [reader EXCEPT !.lexer.record_data =
                                          [ZeroRecordData EXCEPT !.record_mark = data]]
              IN  { Outcome(ihex_SetNextState(o.reader, "WAIT_BYTE_COUNT", NUM_BYTE_COUNT_DIGITS),
                            o.message, o.calls) :
                      o \in ihex_LexerTokenStream(r1, "RECORD_MARK", data, cb_ret) }
    [] st = "WAIT_BYTE_COUNT" ->
         IF temp_digit < 0 THEN {Outcome(r0, "INVALID_INPUT_DATA", <<>>)}
         ELSE UNION { LET r1 == [r0 EXCEPT !.lexer.record_data.reclen = U8(v)]
                      IN  IF num = 0
                          THEN { Outcome(ihex_SetNextState(o.reader, "WAIT_ADDRESS", NUM_ADDRESS_DIGITS),
                                         o.message, o.calls) :
                                   o \in ihex_LexerTokenStream(r1, "RECLEN", U8(v), cb_ret) }
                          ELSE {Outcome(r1, "CONTINUE", <<>>)} :
                      v \in ihex_InsertDigit(rd.reclen, temp_digit, U8(num)) }
    [] st = "WAIT_ADDRESS" ->
         IF temp_digit < 0 THEN {Outcome(r0, "INVALID_INPUT_DATA", <<>>)}
         ELSE UNION { LET r1 == [r0 EXCEPT !.lexer.record_data.load_offset = v]
                      IN  IF num = 0
                          THEN { Outcome(ihex_SetNextState(o.reader, "WAIT_TYPE", NUM_TYPE_DIGITS),
                                         o.message, o.calls) :
                                   o \in ihex_LexerTokenStream(r1, "LOAD_OFFSET", v, cb_ret) }
                          ELSE {Outcome(r1, "CONTINUE", <<>>)} :
                      v \in ihex_InsertDigit(rd.load_offset, temp_digit, U8(num)) }
    [] st = "WAIT_TYPE" ->
         IF temp_digit < 0 THEN {Outcome(r0, "INVALID_INPUT_DATA", <<>>)}
         ELSE UNION { LET r1 == [r0 EXCEPT !.lexer.record_data.rectyp = U8(v)]
                      IN  IF num = 0
                          THEN { LET r2 == [o.reader EXCEPT !.lexer.record_data.data = 0]
                                 IN  Outcome(IF rd.reclen > 0
                                             THEN ihex_SetNextState(r2, "WAIT_DATA", rd.reclen * 2)
                                             ELSE ihex_SetNextState(r2, "WAIT_CHECK_SUM", NUM_CHECK_SUM_DIGITS),
                                             o.message, o.calls) :
                                   o \in ihex_LexerTokenStream(r1, "RECTYP", U8(v), cb_ret) }
                          ELSE {Outcome(r1, "CONTINUE", <<>>)} :
                      v \in ihex_InsertDigit(rd.rectyp, temp_digit, U8(num)) }
    [] st = "WAIT_DATA" ->
         IF temp_digit < 0 THEN {Outcome(r0, "INVALID_INPUT_DATA", <<>>)}
         ELSE LET digit_pos == num % 2
                  Advance(r) == IF num = 0
                             THEN ihex_SetNextState(r, "WAIT_CHECK_SUM", NUM_CHECK_SUM_DIGITS)
                             ELSE r
              IN  UNION { LET r1 == [r0 EXCEPT !.lexer.record_data.data = U8(v)]
                          IN  IF digit_pos = 0
                              THEN { Outcome(Advance([o.reader EXCEPT !.lexer.record_data.data = 0]),
                                             o.message, o.calls) :
                                       o \in ihex_LexerTokenStream(r1, "DATA", U8(v), cb_ret) }
                              ELSE {Outcome(Advance(r1), "CONTINUE", <<>>)} :
                          v \in ihex_InsertDigit(rd.data, temp_digit, digit_pos) }
    [] st = "WAIT_CHECK_SUM" ->
         IF temp_digit < 0 THEN {Outcome(r0, "INVALID_INPUT_DATA", <<>>)}
         ELSE UNION { LET r1 == [r0 EXCEPT !.lexer.record_data.target_check_sum = U8(v)]
                      IN  IF num = 0
                          THEN { Outcome([o.reader EXCEPT !.lexer.state = "WAIT_COLON"],
                                         o.message, o.calls) :
                                   o \in ihex_LexerTokenStream(r1, "CHKSUM", U8(v), cb_ret) }
                          ELSE {Outcome(r1, "CONTINUE", <<>>)} :
                      v \in ihex_InsertDigit(rd.target_check_sum, temp_digit, U8(num)) }

\* ------------------------------------------------------------------------
\* ihex.c : the public functions
\* ------------------------------------------------------------------------
\* mutant: the carriage return is not skipped
ihex_Put_NoCR(reader, data, cb_ret) ==
  IF data = CH_LF THEN {Outcome(reader, "CONTINUE", <<>>)}
  ELSE IF ~ihex_IsValidData(data) THEN {Outcome(reader, "INVALID_INPUT_DATA", <<>>)}
  ELSE ihex_Lexer(reader, data, cb_ret)

\* mutant: every byte that is no line end goes to the lexer
ihex_Put_NoFilter(reader, data, cb_ret) ==
  IF data = CH_LF THEN {Outcome(reader, "CONTINUE", <<>>)}
  ELSE IF data = CH_CR THEN {Outcome(reader, "CONTINUE", <<>>)}
  ELSE ihex_Lexer(reader, data, cb_ret)

\* mutant: invalid bytes are skipped like line ends
ihex_Put_InvalidSkipped(reader, data, cb_ret) ==
  IF data = CH_LF THEN {Outcome(reader, "CONTINUE", <<>>)}
  ELSE IF data = CH_CR THEN {Outcome(reader, "CONTINUE", <<>>)}
  ELSE IF ~ihex_IsValidData(data) THEN {Outcome(reader, "CONTINUE", <<>>)}
  ELSE ihex_Lexer(reader, data, cb_ret)

ihex_Put(reader, data, cb_ret) ==
  IF data = CH_LF THEN {Outcome(reader, "CONTINUE", <<>>)}
  ELSE IF data = CH_CR THEN {Outcome(reader, "CONTINUE", <<>>)}
  ELSE IF ~ihex_IsValidData(data) THEN {Outcome(reader, "INVALID_INPUT_DATA", <<>>)}
  ELSE ihex_Lexer(reader, data, cb_ret)

ihex_Begin_KeepsOffset(reader) == [reader EXCEPT !.lexer.state = "WAIT_COLON"]

ihex_Begin(reader) ==
  [reader EXCEPT !.lexer.state = "WAIT_COLON", !.lexer.ext_offset = Zero32]

ihex_Init(reader, func_data) == [reader EXCEPT !.funcData = func_data]

\* ------------------------------------------------------------------------
\* The caller: record lines of the wire format ":LLAAAATTDD..DDCC"
\* ------------------------------------------------------------------------
Lens == 0 .. MaxLen
Addrs == {5, 16, 65535}
Types == {IHEX_TYPE_00_DATA_RECORD, IHEX_TYPE_01_END_OF_FILE_RECORD,
          IHEX_TYPE_02_EXTENDED_SEGMENT_ADDRESS_RECORD,
          IHEX_TYPE_03_START_SEGMENT_ADDRESS_RECORD,
          IHEX_TYPE_04_EXTENDED_LINEAR_ADDRESS_RECORD}
\* payloads are prefixes of these byte patterns, repeated as far as needed
Patterns == {<<255, 255>>, <<0, 16>>, <<18, 52>>}
Payload(p, n) == [i \in 1 .. n |-> p[((i - 1) % Len(p)) + 1]]
Payloads(n) == {Payload(p, n) : p \in Patterns}
\* the checksum field of a line is the correct one plus a delta
SumDeltas == {0, 1}
\* statuses the user's callback returns
CallbackStatuses == {"CONTINUE", "VERIFICATION_ERROR"}
\* bytes outside [0-9A-Fa-f:\r\n]
NoiseChars == {47, 71}
\* characters a transmission error puts in the place of a character of a line
CorruptChars == {CH_0, CH_0 + 1, CH_F, CH_f, CH_COLON, 71, CH_LF}

RECURSIVE SumSeq(_)
SumSeq(q) == IF q = <<>> THEN 0 ELSE Head(q) + SumSeq(Tail(q))

\* the two's complement of the sum of length, address bytes, type and payload
RecordChecksum(len, addr, typ, data) ==
  (256 - ((len + (addr \div 256) + (addr % 256) + typ + SumSeq(data)) % 256)) % 256

Records ==
  UNION { { [len |-> l, addr |-> a, typ |-> t, data |-> d,
             sum |-> (RecordChecksum(l, a, t, d) + e) % 256] :
               <<a, t, e>> \in Addrs \X Types \X SumDeltas, d \in Payloads(l) } :
          l \in Lens }

\* the records with the correct checksum, and a few of them
GoodRecords == {r \in Records : r.sum = RecordChecksum(r.len, r.addr, r.typ, r.data)}
FewRecords ==
  {r \in GoodRecords :
     /\ r.len = MaxLen
     /\ r.addr = 16 /\ r.data = Payload(<<18, 52>>, r.len)
     /\ r.typ \in {IHEX_TYPE_00_DATA_RECORD, IHEX_TYPE_04_EXTENDED_LINEAR_ADDRESS_RECORD}}

\* record types beyond the ones the decoder looks at
IHEX_TYPE_05_START_LINEAR_ADDRESS_RECORD == 5
UnknownType == 255

\* records of every kind of type, empty and full
ExtRecords ==
  { [len |-> l, addr |-> 16, typ |-> t, data |-> Payload(<<18, 52>>, l),
     sum |-> RecordChecksum(l, 16, t, Payload(<<18, 52>>, l))] :
      l \in {0, MaxLen},
      t \in Types \cup {IHEX_TYPE_05_START_LINEAR_ADDRESS_RECORD, UnknownType} }

NoRecord == [len |-> 0, addr |-> 0, typ |-> 0, data |-> <<>>, sum |-> 0]

HexChar(n) == IF n < 10 THEN CH_0 + n ELSE CH_A + (n - 10)
HexByte(b) == <<HexChar(b \div 16), HexChar(b % 16)>>

RECURSIVE HexBytes(_)
HexBytes(q) == IF q = <<>> THEN <<>> ELSE HexByte(Head(q)) \o HexBytes(Tail(q))

\* the characters of the line of a record, the ':' mark first
Encode(r) ==
  <<CH_COLON>> \o HexByte(r.len) \o HexByte(r.addr \div 256) \o HexByte(r.addr % 256)
     \o HexByte(r.typ) \o HexBytes(r.data) \o HexByte(r.sum)

\* ------------------------------------------------------------------------
\* m_cfifo.c : the operations on one FIFO, without semaphore protection
\* ------------------------------------------------------------------------
\* a m_cfifo_tCFifo is a record [prev, next, buffer, buffer_size, used_count,
\* rdPtr, wrPtr, dummy_byte, semaphore]; buffer is NULL or "array", the array the
\* application passed to m_cfifo_ConfigBuffer, whose cells are the function buf
m_cfifo_tDirection == {"M_CFIFO_UP", "M_CFIFO_DOWN"}

m_cfifo_This_IsEmptyInternal(cfifo) == cfifo.used_count = 0

m_cfifo_This_IsFullInternal_Above(cfifo) == cfifo.used_count > cfifo.buffer_size

m_cfifo_This_IsFullInternal(cfifo) == cfifo.used_count >= cfifo.buffer_size

\* (ptr + 1) % buffer_size; a division by zero is undefined: any index, flagged
IncPtr(ptr, buffer_size) ==
  IF buffer_size = 0
    THEN {[ptr |-> q, divzero |-> TRUE] : q \in 0 .. MaxSize}
    ELSE {[ptr |-> (ptr + 1) % buffer_size, divzero |-> FALSE]}

m_cfifo_IncRdPtr_Stuck(cfifo) == {[cfifo |-> cfifo, divzero |-> FALSE]}

m_cfifo_IncRdPtr(cfifo) ==
  {[cfifo |-> [cfifo EXCEPT !.rdPtr = i.ptr], divzero |-> i.divzero] :
     i \in IncPtr(cfifo.rdPtr, cfifo.buffer_size)}

m_cfifo_IncWrPtr(cfifo) ==
  {[cfifo |-> [cfifo EXCEPT !.wrPtr = i.ptr], divzero |-> i.divzero] :
     i \in IncPtr(cfifo.wrPtr, cfifo.buffer_size)}

\* what an internal operation did: the FIFO and its array afterwards, the result,
\* the byte written to *data (out), whether it divided by zero
Effect(cfifo, buf, res, out, divzero) ==
  [cfifo |-> cfifo, buf |-> buf, res |-> res, out |-> out, divzero |-> divzero]

m_cfifo_This_PushInternal(cfifo, buf, data, out) ==
  IF cfifo.buffer = NULL THEN {Effect(cfifo, buf, FALSE, out, FALSE)}
  ELSE IF m_cfifo_This_IsFullInternal(cfifo) THEN {Effect(cfifo, buf, FALSE, out, FALSE)}
  ELSE { Effect([i.cfifo EXCEPT !.used_count = U16(@ + 1)],
                [buf EXCEPT ![cfifo.wrPtr] = data], TRUE, out, i.divzero) :
           i \in m_cfifo_IncWrPtr(cfifo) }

m_cfifo_This_PopInternal(cfifo, buf, out) ==
  IF m_cfifo_This_IsEmptyInternal(cfifo) THEN {Effect(cfifo, buf, FALSE, out, FALSE)}
  ELSE { Effect([i.cfifo EXCEPT !.used_count = U16(@ + 65535)], buf, TRUE,
                IF cfifo.buffer = NULL THEN cfifo.dummy_byte ELSE buf[cfifo.rdPtr],
                i.divzero) :
           i \in m_cfifo_IncRdPtr(cfifo) }

m_cfifo_This_ClearInternal(cfifo) ==
  [cfifo EXCEPT !.rdPtr = 0, !.wrPtr = 0, !.used_count = 0]

m_cfifo_This_SetFullInternal_KeepsPtrs(cfifo) ==
  [cfifo EXCEPT !.used_count = cfifo.buffer_size]

m_cfifo_This_SetFullInternal(cfifo) ==
  [cfifo EXCEPT !.rdPtr = 0, !.wrPtr = 0, !.used_count = cfifo.buffer_size]

m_cfifo_GetAdjacentFifo(cfifo, direction) ==
  IF direction = "M_CFIFO_UP" THEN cfifo.next
  ELSE IF direction = "M_CFIFO_DOWN" THEN cfifo.prev
  ELSE NULL

\* ------------------------------------------------------------------------
\* State
\* ------------------------------------------------------------------------
VARIABLES
  reader,    \* the ihex_tReader
  pending,   \* characters of the current line the caller has not fed yet
  line,      \* the line being fed: its record and what happened to it
  calls,     \* invocations of the data callback since the line started
  last,      \* the byte and the returned status of the last ihex_Put call
  nlines,    \* lines started so far
  twin,      \* a freshly begun Reader fed the same bytes since the last ihex_Begin
  fifo,      \* the m_cfifo_tCFifo structures
  memory,    \* the arrays of the application, one per FIFO
  semaphore, \* the binary semaphores: count, and the task whose take succeeded
  task,      \* what each task is doing: the public function it is in, its locals
  before,    \* the FIFOs and arrays when the observed call started
  configured, \* the FIFOs on which m_cfifo_ConfigBuffer has taken effect
  queue      \* per FIFO: the bytes pushed and not yet popped since m_cfifo_This_Clear

ivars == <<reader, pending, line, calls, last, nlines, twin>>
fvars == <<fifo, memory, semaphore, task, before, configured, queue>>
vars == <<reader, pending, line, calls, last, nlines, twin,
          fifo, memory, semaphore, task, before, configured, queue>>

\* cb: the status the callback returned during the call, "none" if it was not
\* invoked; digits: the hex digits the Reader has taken since it entered the field
\* it is in
NoCall == [c |-> -1, msg |-> "CONTINUE", cb |-> "none", digits |-> 0]
Call(c, p) ==
  [c |-> c, msg |-> p.o.message, cb |-> p.cb,
   digits |-> IF p.o.reader.lexer.state # reader.lexer.state THEN 0
              ELSE IF reader.lexer.state # "WAIT_COLON" /\ ihex_CharToValue(c) >= 0
                     /\ p.o.message # "INVALID_INPUT_DATA"
                THEN last.digits + 1
              ELSE last.digits]

\* the outcomes of ihex_Put(reader, c), each with the status the callback returned
\* during the call ("none" if the call did not invoke it)
PutOutcomes(c) ==
  UNION { { [o |-> o, cb |-> IF o.calls # <<>> THEN cb ELSE "none"] :
              o \in ihex_Put(reader, c, cb) } : cb \in CallbackStatuses }

NoLine ==
  [active |-> FALSE, rec |-> NoRecord, fresh |-> FALSE, resync |-> FALSE, base0 |-> Zero32,
   ext |-> [typ |-> 0, val |-> 0],
   cpos |-> 0, cch |-> 0, cmsg |-> "CONTINUE", err |-> FALSE]

\* what a complete extension record of two payload bytes says about the base:
\* its type and its 16-bit payload (type 0: the line was no such record)
ExtOf(ln, pend) ==
  IF ln.active /\ ln.fresh /\ ln.cpos = 0 /\ pend = <<>> /\ ln.rec.len = 2
     /\ ln.rec.typ \in {IHEX_TYPE_02_EXTENDED_SEGMENT_ADDRESS_RECORD,
                        IHEX_TYPE_04_EXTENDED_LINEAR_ADDRESS_RECORD}
  THEN [typ |-> ln.rec.typ, val |-> ln.rec.data[1] * 256 + ln.rec.data[2]]
  ELSE [typ |-> 0, val |-> 0]

IsError(msg) == msg \in {"INVALID_INPUT_DATA", "CHECK_SUM_ERROR"}

\* the FIFOs and the tasks of the application
Fifos == {"A", "B"}
Tasks == {"T1", "T2"}

\* the memory of a m_cfifo_tCFifo before m_cfifo_InitBuffer: all zero (static
\* storage) or whatever the memory held (here: a used_count that is not zero)
ZeroFifo ==
  [prev |-> NULL, next |-> NULL, buffer |-> NULL, buffer_size |-> 0, used_count |-> 0,
   rdPtr |-> 0, wrPtr |-> 0, dummy_byte |-> 0, semaphore |-> NULL]
RawFifos == {ZeroFifo, [ZeroFifo EXCEPT !.used_count = 1]}

ZeroArray == [i \in 0 .. MaxSize - 1 |-> 0]

\* valid: since the last m_cfifo_This_Clear of the configured FIFO only
\* m_cfifo_This_Push and m_cfifo_This_Pop were called on it
NoQueue == [valid |-> FALSE, items |-> <<>>]
NoSemaphore == [count |-> 0, holder |-> NULL]

\* the arguments of a call (those the function does not have stay as here)
NoArgs == [data |-> 0, direction |-> "M_CFIFO_UP", buffer |-> NULL, buffer_size |-> 0,
           cfifo_next |-> NULL]

\* pc: "idle" before the first call, "run" between xSemaphoreTake and
\* xSemaphoreGive, "done" after the return; out is the caller's byte that
\* *data points to; took: xSemaphoreTake succeeded; access: the FIFOs whose
\* fields the last step read or wrote
NoTask ==
  [pc |-> "idle", op |-> "none", cfifo |-> NULL, args |-> NoArgs, actual_buffer |-> NULL,
   took |-> FALSE, success |-> FALSE, out |-> 255, ret |-> FALSE, divzero |-> FALSE,
   access |-> {}]

\* the m_cfifo world while only the decoder runs
IdleFifos ==
  /\ fifo = [f \in Fifos |-> ZeroFifo]
  /\ memory = [f \in Fifos |-> ZeroArray]
  /\ semaphore = [f \in Fifos |-> NoSemaphore]
  /\ task = [t \in Tasks |-> NoTask]
  /\ before = [fifo |-> [f \in Fifos |-> ZeroFifo], memory |-> [f \in Fifos |-> ZeroArray]]
  /\ configured = {}
  /\ queue = [f \in Fifos |-> NoQueue]

\* the memory of a Reader before ihex_Init, here all zero
ZeroReader ==
  [lexer |-> [state |-> "WAIT_COLON", num_expected_characters |-> 0,
              ext_offset_byte_pos |-> 0, ext_offset |-> Zero32,
              rec_byte_offset |-> 0, calc_chksum |-> 0,
              record_data |-> ZeroRecordData],
   funcData |-> NULL]

\* a Reader after ihex_Init(func_data) and ihex_Begin
FreshReader(func_data) == ihex_Begin(ihex_Init(ZeroReader, func_data))

\* the twin: it exists (on) from the first ihex_Begin of the run
NoTwin == [on |-> FALSE, reader |-> ZeroReader, calls |-> <<>>, msg |-> "CONTINUE"]
FreshTwin == [on |-> TRUE, reader |-> FreshReader(reader.funcData), calls |-> <<>>,
              msg |-> "CONTINUE"]

\* the lexer fields that are read before they are written again: all but
\* ext_offset_byte_pos, which the type field sets before the payload uses it
SameLexer(a, b) ==
  [a.lexer EXCEPT !.ext_offset_byte_pos = 0] = [b.lexer EXCEPT !.ext_offset_byte_pos = 0]

\* the twin after the same ihex_Put(c) call, its callback returning what the
\* Reader's callback returned (outcome p); where the call's behaviour is
\* undefined the twin may do what the Reader did. newline: calls start over.
TwinPut(c, p, newline) ==
  IF ~twin.on THEN {twin}
  ELSE LET outs == ihex_Put(twin.reader, c, IF p.cb = "none" THEN "CONTINUE" ELSE p.cb)
           same == {o \in outs : /\ SameLexer(o.reader, p.o.reader)
                                 /\ o.message = p.o.message
                                 /\ o.calls = p.o.calls}
       IN { [on |-> TRUE, reader |-> o.reader,
             calls |-> IF newline THEN o.calls ELSE twin.calls \o o.calls,
             msg |-> o.message] : o \in IF same # {} THEN same ELSE outs }

\* the Reader after ihex_Init and ihex_Begin; the fields neither of them
\* writes are not read before the lexer has written them
Init ==
  /\ \E f \in ihex_tDataCallback : reader = FreshReader(f)
  /\ twin = NoTwin
  /\ IdleFifos
  /\ pending = <<>>
  /\ line = NoLine
  /\ calls = <<>>
  /\ last = NoCall
  /\ nlines = 0

\* one ihex_Put(reader, c) call
Feed(c) ==
  \E p \in PutOutcomes(c) :
    /\ reader' = p.o.reader
    /\ calls' = calls \o p.o.calls
    /\ last' = Call(c, p)
    /\ twin' \in TwinPut(c, p, FALSE)
    /\ UNCHANGED fvars

\* the line of record r starts: the caller feeds its mark
BeginLine(r) ==
  /\ nlines < MaxLines
  /\ \E p \in PutOutcomes(CH_COLON) :
       /\ reader' = p.o.reader
       /\ calls' = p.o.calls
       /\ last' = Call(CH_COLON, p)
       /\ twin' \in TwinPut(CH_COLON, p, TRUE)
       /\ UNCHANGED fvars
       /\ line' = [NoLine EXCEPT !.active = TRUE, !.rec = r,
                                 !.fresh = (reader.lexer.state = "WAIT_COLON"),
                                 !.resync = (last.msg = "INVALID_INPUT_DATA"
                                             /\ reader.lexer.state # "WAIT_COLON"),
                                 !.base0 = reader.lexer.ext_offset,
                                 !.ext = ExtOf(line, pending),
                                 !.err = IsError(p.o.message)]
  /\ pending' = Tail(Encode(r))
  /\ nlines' = nlines + 1

\* the caller starts the next line after a complete one
StartLine(r) ==
  /\ pending = <<>>
  /\ BeginLine(r)

\* the caller got InvalidInput inside a line, drops the rest of that line and
\* goes on with the next ':'
ResyncLine(r) ==
  /\ pending # <<>>
  /\ last.msg = "INVALID_INPUT_DATA"
  /\ BeginLine(r)

\* the same with the mark replaced by the character c
StartLineCorrupted(r, c) ==
  /\ nlines < MaxLines
  /\ pending = <<>>
  /\ c # CH_COLON
  /\ \E p \in PutOutcomes(c) :
       /\ reader' = p.o.reader
       /\ calls' = p.o.calls
       /\ last' = Call(c, p)
       /\ twin' \in TwinPut(c, p, TRUE)
       /\ UNCHANGED fvars
       /\ line' = [NoLine EXCEPT !.active = TRUE, !.rec = r,
                                 !.fresh = (reader.lexer.state = "WAIT_COLON"),
                                 !.base0 = reader.lexer.ext_offset,
                                 !.cpos = 1, !.cch = c, !.cmsg = p.o.message,
                                 !.err = IsError(p.o.message)]
  /\ pending' = Tail(Encode(r))
  /\ nlines' = nlines + 1

\* the next character of the line
PutNext ==
  /\ pending # <<>>
  /\ Feed(Head(pending))
  /\ pending' = Tail(pending)
  /\ line' = [line EXCEPT !.err = @ \/ IsError(last'.msg)]
  /\ UNCHANGED nlines

\* the next character of the line, replaced by c (once per line)
PutCorrupted(c) ==
  /\ pending # <<>>
  /\ line.cpos = 0
  /\ c # Head(pending)
  /\ Feed(c)
  /\ pending' = Tail(pending)
  /\ line' = [line EXCEPT !.cpos = Len(Encode(line.rec)) - Len(pending) + 1,
                          !.cch = c, !.cmsg = last'.msg,
                          !.err = @ \/ IsError(last'.msg)]
  /\ UNCHANGED nlines

\* a carriage return or line feed, anywhere in the stream
PutCRLF(c) ==
  /\ Feed(c)
  /\ UNCHANGED <<pending, line, nlines>>

\* a byte outside [0-9A-Fa-f:\r\n], anywhere in the stream
PutNoise(c) ==
  /\ Feed(c)
  /\ UNCHANGED <<pending, line, nlines>>

\* ihex_Begin: the caller starts a new stream
Begin ==
  /\ reader' = ihex_Begin(reader)
  /\ twin' = FreshTwin
  /\ UNCHANGED fvars
  /\ pending' = <<>>
  /\ line' = NoLine
  /\ calls' = <<>>
  /\ last' = NoCall
  /\ UNCHANGED nlines

\* ------------------------------------------------------------------------
\* m_cfifo.c : the public functions, called by the tasks
\* ------------------------------------------------------------------------
\* xSemaphoreCreateBinary: NULL when the heap is exhausted, else the handle of
\* a new binary semaphore; FreeRTOS creates it empty, it has to be given before
\* it can be taken
xSemaphoreCreateBinary == {NULL, "handle"}
NewSemaphore == [count |-> 0, holder |-> NULL]

Idle(t) == task[t].pc \in {"idle", "done"}

Returned(t, op, f, a, ret) ==
  [NoTask EXCEPT !.pc = "done", !.op = op, !.cfifo = f, !.args = a, !.ret = ret]

\* m_cfifo_InitBuffer(f) by task t, from the call to the return; the call of
\* m_cfifo_ConfigBuffer(f, NULL, 0) in it takes the new semaphore or gives up
\* after the timeout, and its result is not looked at
InitBuffer(t, f) ==
  /\ Idle(t)
  /\ fifo[f].semaphore = NULL
  /\ \E h \in xSemaphoreCreateBinary :
       IF h = NULL
         THEN /\ task' = [task EXCEPT ![t] = Returned(t, "InitBuffer", f, NoArgs, FALSE)]
              /\ UNCHANGED <<fifo, semaphore, configured>>
         ELSE LET c1 == [fifo[f] EXCEPT !.semaphore = h, !.prev = NULL, !.next = NULL,
                                        !.dummy_byte = 0]
                  took == NewSemaphore.count > 0
                  c2 == IF took
                          THEN m_cfifo_This_SetFullInternal(
                                 [c1 EXCEPT !.buffer = NULL, !.buffer_size = 0])
                          ELSE c1
              IN /\ fifo' = [fifo EXCEPT ![f] = c2]
                 /\ semaphore' = [semaphore EXCEPT
                                    ![f] = IF took THEN [count |-> 1, holder |-> NULL]
                                                   ELSE NewSemaphore]
                 /\ configured' = IF took THEN configured \cup {f} ELSE configured
                 /\ task' = [task EXCEPT ![t] = Returned(t, "InitBuffer", f, NoArgs, TRUE)]
  /\ UNCHANGED <<memory, before, queue>>
  /\ UNCHANGED ivars

\* the application gives the semaphore of f, which nobody has given or taken yet
\* (the handle is a public field of the structure)
GiveSemaphore(f) ==
  /\ fifo[f].semaphore # NULL
  /\ semaphore[f] = NewSemaphore
  /\ semaphore' = [semaphore EXCEPT ![f].count = 1]
  /\ UNCHANGED <<fifo, memory, task, before, configured, queue>>
  /\ UNCHANGED ivars

\* a public function called with cfifo == NULL returns false
CallNull(t, op) ==
  /\ Idle(t)
  /\ task' = [task EXCEPT ![t] = Returned(t, op, NULL, NoArgs, FALSE)]
  /\ UNCHANGED <<fifo, memory, semaphore, before, configured, queue>>
  /\ UNCHANGED ivars

\* task t calls the public function op on f with the arguments a, up to the
\* return of xSemaphoreTake: the semaphore is taken, or the timeout ends the call
\* with false. observe: the FIFOs at the call are kept in before.
CallOp(t, op, f, a, observe) ==
  /\ Idle(t)
  /\ fifo[f].semaphore # NULL
  /\ IF semaphore[f].count > 0
       THEN /\ semaphore' = [semaphore EXCEPT ![f] = [count |-> 0, holder |-> t]]
            /\ task' = [task EXCEPT ![t] = [NoTask EXCEPT !.pc = "run", !.op = op,
                                              !.cfifo = f, !.args = a, !.took = TRUE,
                                              !.actual_buffer = f]]
       ELSE /\ task' = [task EXCEPT ![t] = Returned(t, op, f, a, FALSE)]
            /\ UNCHANGED semaphore
  /\ before' = IF observe THEN [fifo |-> fifo, memory |-> memory] ELSE before
  /\ UNCHANGED <<fifo, memory, configured, queue>>
  /\ UNCHANGED ivars

LoopOn_ToTheEnd(k) == k.actual_buffer # NULL

\* the loop of the function goes on: All_Push and All_Pop stop at the first success
LoopOn(k) ==
  /\ k.actual_buffer # NULL
  /\ k.op \in {"All_Push", "All_Pop"} => ~k.success

\* where the function goes after the FIFO c
NextBuffer(k, c) ==
  IF k.op \in {"All_Push", "All_Pop"} THEN c.next
  ELSE IF k.op \in {"All_Clear", "All_SetFull"}
    THEN m_cfifo_GetAdjacentFifo(c, k.args.direction)
  ELSE NULL

\* what the function of task k does to the FIFO c with the array buf
Internal(k, c, buf) ==
  CASE k.op \in {"This_Push", "All_Push"} ->
         m_cfifo_This_PushInternal(c, buf, k.args.data, k.out)
    [] k.op \in {"This_Pop", "All_Pop"} ->
         m_cfifo_This_PopInternal(c, buf, k.out)
    [] k.op \in {"This_Clear", "All_Clear"} ->
         {Effect(m_cfifo_This_ClearInternal(c), buf, TRUE, k.out, FALSE)}
    [] k.op \in {"This_SetFull", "All_SetFull"} ->
         {Effect(m_cfifo_This_SetFullInternal(c), buf, TRUE, k.out, FALSE)}
    [] k.op = "ConfigBuffer" ->
         {Effect(m_cfifo_This_SetFullInternal(
                   [c EXCEPT !.buffer = k.args.buffer,
                             !.buffer_size = k.args.buffer_size]),
                 buf, TRUE, k.out, FALSE)}
    [] k.op = "SetDummyByte" ->
         {Effect([c EXCEPT !.dummy_byte = k.args.data], buf, TRUE, k.out, FALSE)}

\* the queue of FIFO g after the function of task k has worked on it with result res
QueueAfter(q, k, g, res) ==
  IF k.op = "This_Clear" THEN [valid |-> g \in configured, items |-> <<>>]
  ELSE IF ~q.valid THEN q
  ELSE IF k.op = "This_Push" THEN (IF res THEN [q EXCEPT !.items = Append(@, k.args.data)] ELSE q)
  ELSE IF k.op = "This_Pop" THEN (IF res /\ q.items # <<>> THEN [q EXCEPT !.items = Tail(@)] ELSE q)
  ELSE NoQueue

\* the body of the function between take and give: one FIFO at a time
Step(t) ==
  LET k == task[t]
      g == k.actual_buffer
  IN /\ k.pc = "run"
     /\ LoopOn(k)
     /\ k.op # "CascadeAsNextBuffer"
     /\ \E e \in Internal(k, fifo[g], memory[g]) :
          /\ fifo' = [fifo EXCEPT ![g] = e.cfifo]
          /\ memory' = [memory EXCEPT ![g] = e.buf]
          /\ task' = [task EXCEPT ![t] = [k EXCEPT !.success = e.res, !.out = e.out,
                                             !.divzero = @ \/ e.divzero,
                                             !.actual_buffer = NextBuffer(k, e.cfifo),
                                             !.access = {g}]]
          /\ queue' = [queue EXCEPT ![g] = QueueAfter(@, k, g, e.res)]
     /\ configured' = IF k.op = "ConfigBuffer" THEN configured \cup {g} ELSE configured
     /\ UNCHANGED <<semaphore, before>>
     /\ UNCHANGED ivars

\* m_cfifo_CascadeAsNextBuffer between take and give
Link(t) ==
  LET k == task[t]
      g == k.actual_buffer
      n == k.args.cfifo_next
  IN /\ k.pc = "run"
     /\ LoopOn(k)
     /\ k.op = "CascadeAsNextBuffer"
     /\ fifo' = [f \in Fifos |->
                   LET c1 == IF f = g THEN [fifo[f] EXCEPT !.next = n] ELSE fifo[f]
                   IN IF f = n THEN [c1 EXCEPT !.prev = g] ELSE c1]
     /\ task' = [task EXCEPT ![t] = [k EXCEPT !.success = TRUE, !.actual_buffer = NULL,
                                        !.access = {g, n}]]
     /\ UNCHANGED <<memory, semaphore, before, configured, queue>>
     /\ UNCHANGED ivars

\* the value the function returns after the give; m_cfifo_ConfigBuffer and
\* m_cfifo_SetDummyByte reach their closing brace without a return statement,
\* so what the caller reads is not determined
ReturnValues(k) ==
  IF k.op \in {"ConfigBuffer", "SetDummyByte"} THEN BOOLEAN
  ELSE IF k.op \in {"This_Push", "All_Push", "This_Pop", "All_Pop"} THEN {k.success}
  ELSE {TRUE}

\* xSemaphoreGive and the return
Return(t) ==
  LET k == task[t]
  IN /\ k.pc = "run"
     /\ ~LoopOn(k)
     /\ semaphore' = [semaphore EXCEPT ![k.cfifo] = [count |-> 1, holder |-> NULL]]
     /\ \E r \in ReturnValues(k) :
          task' = [task EXCEPT ![t] = [k EXCEPT !.pc = "done", !.ret = r, !.access = {}]]
     /\ UNCHANGED <<fifo, memory, before, configured, queue>>
     /\ UNCHANGED ivars

\* the decoder while only the FIFOs are used
IdleDecoder ==
  /\ reader = FreshReader(NULL)
  /\ twin = NoTwin
  /\ pending = <<>>
  /\ line = NoLine
  /\ calls = <<>>
  /\ last = NoCall
  /\ nlines = 0

\* the bytes the application pushes and the dummy byte it sets
PushBytes == {1, 2}
DummyBytes == {170}

\* the arguments the application calls a function with
ArgsOf(op) ==
  CASE op = "ConfigBuffer" ->
         {[NoArgs EXCEPT !.buffer = b, !.buffer_size = n] :
            b \in {NULL, "array"}, n \in 0 .. MaxSize}
    [] op = "SetDummyByte" -> {[NoArgs EXCEPT !.data = d] : d \in DummyBytes}
    [] op \in {"This_Push", "All_Push"} -> {[NoArgs EXCEPT !.data = d] : d \in PushBytes}
    [] op \in {"All_Clear", "All_SetFull"} ->
         {[NoArgs EXCEPT !.direction = d] : d \in m_cfifo_tDirection}
    [] op = "CascadeAsNextBuffer" -> {[NoArgs EXCEPT !.cfifo_next = n] : n \in Fifos}
    [] OTHER -> {NoArgs}

FifoOps ==
  {"ConfigBuffer", "SetDummyByte", "This_Push", "All_Push", "This_Pop", "All_Pop",
   "This_Clear", "All_Clear", "This_SetFull", "All_SetFull"}

\* one FIFO, one task: the structure of A holds anything before m_cfifo_InitBuffer
InitFifo ==
  /\ IdleDecoder
  /\ \E r \in RawFifos : fifo = [f \in Fifos |-> IF f = "A" THEN r ELSE ZeroFifo]
  /\ memory = [f \in Fifos |-> ZeroArray]
  /\ semaphore = [f \in Fifos |-> NoSemaphore]
  /\ task = [t \in Tasks |-> NoTask]
  /\ before = [fifo |-> fifo, memory |-> memory]
  /\ configured = {}
  /\ queue = [f \in Fifos |-> NoQueue]

NextFifo ==
  \/ InitBuffer("T1", "A")
  \/ GiveSemaphore("A")
  \/ \E op \in {"ConfigBuffer", "SetDummyByte"} : CallNull("T1", op)
  \/ \E op \in FifoOps : \E a \in ArgsOf(op) : CallOp("T1", op, "A", a, TRUE)
  \/ Step("T1")
  \/ Return("T1")

SpecFifo == InitFifo /\ [][NextFifo]_vars

\* two FIFOs and one task: both FIFOs are initialised from zeroed structures and
\* their semaphores given; the application configures, empties and links them
\* (A before B only, so the chain has no cycle) and pushes into the chain
InitChain ==
  /\ IdleDecoder
  /\ fifo = [f \in Fifos |-> [ZeroFifo EXCEPT !.semaphore = "handle"]]
  /\ memory = [f \in Fifos |-> ZeroArray]
  /\ semaphore = [f \in Fifos |-> [count |-> 1, holder |-> NULL]]
  /\ task = [t \in Tasks |-> NoTask]
  /\ before = [fifo |-> fifo, memory |-> memory]
  /\ configured = {}
  /\ queue = [f \in Fifos |-> NoQueue]

ChainOps == {"ConfigBuffer", "This_Pop", "All_Push"}
\* the application pushes one value and configures a FIFO with its array or
\* takes the array away
ChainArgs(op) ==
  {a \in ArgsOf(op) : a.data \in {0, 1} /\ (a.buffer = NULL => a.buffer_size = 0)}

NextChain ==
  \/ \E op \in ChainOps : \E f \in Fifos : \E a \in ChainArgs(op) :
       CallOp("T1", op, f, a, TRUE)
  \/ CallOp("T1", "CascadeAsNextBuffer", "A", [NoArgs EXCEPT !.cfifo_next = "B"], TRUE)
  \/ Step("T1")
  \/ Link("T1")
  \/ Return("T1")

SpecChain == InitChain /\ [][NextChain]_vars

\* two tasks and the chain A -> B, as the application has set it up with
\* m_cfifo_InitBuffer, xSemaphoreGive and m_cfifo_ConfigBuffer(array, MaxSize) on
\* each FIFO and m_cfifo_CascadeAsNextBuffer(A, B)
InitTasks ==
  /\ IdleDecoder
  /\ fifo = [f \in Fifos |->
               m_cfifo_This_SetFullInternal(
                 [ZeroFifo EXCEPT !.semaphore = "handle", !.buffer = "array",
                                  !.buffer_size = MaxSize,
                                  !.next = IF f = "A" THEN "B" ELSE NULL,
                                  !.prev = IF f = "B" THEN "A" ELSE NULL])]
  /\ memory = [f \in Fifos |-> ZeroArray]
  /\ semaphore = [f \in Fifos |-> [count |-> 1, holder |-> NULL]]
  /\ task = [t \in Tasks |-> NoTask]
  /\ before = [fifo |-> fifo, memory |-> memory]
  /\ configured = Fifos
  /\ queue = [f \in Fifos |-> NoQueue]

TaskOps == {"This_Push", "All_Push", "This_Pop", "All_Pop", "All_Clear"}
TaskArgs(op) == {a \in ArgsOf(op) : a.data \in {0, 1}}

NextTasks ==
  \/ \E t \in Tasks : \E op \in TaskOps : \E f \in Fifos : \E a \in TaskArgs(op) :
       CallOp(t, op, f, a, FALSE)
  \/ \E t \in Tasks : Step(t)
  \/ \E t \in Tasks : Return(t)

SpecTasks == InitTasks /\ [][NextTasks]_vars

\* one task and the chain A -> B: both FIFOs are initialised, their semaphores
\* given and A is linked to B; the structure of B held a used_count other than
\* zero before m_cfifo_InitBuffer, which has left it, and no FIFO is configured yet
InitLinked ==
  /\ IdleDecoder
  /\ \E r \in RawFifos \ {ZeroFifo} :
       fifo = [f \in Fifos |->
                 IF f = "A" THEN [ZeroFifo EXCEPT !.semaphore = "handle", !.next = "B"]
                 ELSE [r EXCEPT !.semaphore = "handle", !.prev = "A"]]
  /\ memory = [f \in Fifos |-> ZeroArray]
  /\ semaphore = [f \in Fifos |-> [count |-> 1, holder |-> NULL]]
  /\ task = [t \in Tasks |-> NoTask]
  /\ before = [fifo |-> fifo, memory |-> memory]
  /\ configured = {}
  /\ queue = [f \in Fifos |-> NoQueue]

\* the functions that move the indices
IndexOps == FifoOps \ {"SetDummyByte"}

\* the application works on the head of the chain and configures both FIFOs
NextLinked ==
  \/ \E op \in IndexOps : \E a \in TaskArgs(op) : CallOp("T1", op, "A", a, FALSE)
  \/ \E a \in TaskArgs("ConfigBuffer") : CallOp("T1", "ConfigBuffer", "B", a, FALSE)
  \/ Step("T1")
  \/ Return("T1")

SpecLinked == InitLinked /\ [][NextLinked]_vars

\* streams of complete record lines
Next ==
  \/ \E r \in Records : StartLine(r)
  \/ PutNext

Spec == Init /\ [][Next]_vars

\* streams with line ends, stray bytes and resynchronisation
NextNoisy ==
  \/ \E r \in FewRecords : StartLine(r)
  \/ \E r \in FewRecords : ResyncLine(r)
  \/ PutNext
  \/ \E c \in {CH_CR, CH_LF} : PutCRLF(c)
  \/ \E c \in NoiseChars : PutNoise(c)

SpecNoisy == Init /\ [][NextNoisy]_vars

\* the same streams, restarted with ihex_Begin at any point
NextRestart ==
  \/ \E r \in FewRecords : StartLine(r)
  \/ \E r \in FewRecords : ResyncLine(r)
  \/ PutNext
  \/ \E c \in NoiseChars : PutNoise(c)
  \/ Begin

SpecRestart == Init /\ [][NextRestart]_vars

\* streams of complete lines of data and extension records, restarted with
\* ihex_Begin at any point
NextExt ==
  \/ \E r \in ExtRecords : StartLine(r)
  \/ PutNext
  \/ Begin

SpecExt == Init /\ [][NextExt]_vars

\* one line with one character replaced
NextCorrupt ==
  \/ \E r \in GoodRecords : nlines = 0 /\ StartLine(r)
  \/ \E r \in GoodRecords : \E c \in CorruptChars : nlines = 0 /\ StartLineCorrupted(r, c)
  \/ PutNext
  \/ \E c \in CorruptChars : PutCorrupted(c)

SpecCorrupt == Init /\ [][NextCorrupt]_vars

\* ------------------------------------------------------------------------
\* What the wire format says about a line (used by the properties only)
\* ------------------------------------------------------------------------
IsHexDigit(c) == c \in (48 .. 57) \cup (65 .. 70) \cup (97 .. 102)
HexValue(c) ==
  IF c \in 48 .. 57 THEN c - 48 ELSE IF c \in 65 .. 70 THEN c - 55 ELSE c - 87

\* characters of the line fed so far, the mark included
Fed == Len(Encode(line.rec)) - Len(pending)
\* the mark, the length, the address and the type take 9 characters
HeaderChars == 1 + NUM_BYTE_COUNT_DIGITS + NUM_ADDRESS_DIGITS + NUM_TYPE_DIGITS
\* payload bytes of the line that are complete
PayloadDone ==
  IF Fed <= HeaderChars THEN 0
  ELSE IF (Fed - HeaderChars) \div 2 >= line.rec.len THEN line.rec.len
  ELSE (Fed - HeaderChars) \div 2

\* base + offset + index modulo 2^32, on the 16-bit halves
ExpectedAddress(base, offset, index) ==
  LET low == base[2] + offset + index
  IN  <<(base[1] + (low \div 65536)) % 65536, low % 65536>>

ExpectedCalls(base) ==
  [i \in 1 .. PayloadDone |->
     [address |-> ExpectedAddress(base, line.rec.addr, i - 1), data |-> line.rec.data[i]]]

\* the last ihex_Put call consumed the last character of the line
LineDone == line.active /\ pending = <<>> /\ last.c = Encode(line.rec)[Len(Encode(line.rec))]

SumOk(r) == r.sum = RecordChecksum(r.len, r.addr, r.typ, r.data)

\* a line that is fed as encoded to a Reader that was waiting for a mark
WellFormed == line.active /\ line.fresh /\ line.cpos = 0

\* ------------------------------------------------------------------------
\* Properties
\* ------------------------------------------------------------------------

\* C1: for a well-formed type-00 record on a Reader with a callback, the callback
\* has been invoked once per completed payload byte, in ascending index, the i-th
\* invocation with the i-th payload byte and the address
\* (extension base at the start of the record + load offset + i) mod 2^32; after
\* the whole record that is exactly `length` invocations.
C1_DataCallbacks ==
  (WellFormed /\ line.rec.typ = IHEX_TYPE_00_DATA_RECORD /\ reader.funcData # NULL)
    => calls = ExpectedCalls(line.base0)

\* C1 witness: a complete two-byte data record after an extended linear address
\* record, whose second address wraps around 2^32
C1_Witness ==
  /\ WellFormed /\ LineDone /\ reader.funcData # NULL
  /\ line.rec.typ = IHEX_TYPE_00_DATA_RECORD /\ line.rec.len = 2 /\ line.rec.addr = 65535
  /\ line.base0 = <<65535, 0>>
  /\ Len(calls) = 2 /\ calls[1].address = <<65535, 65535>> /\ calls[2].address = <<0, 0>>

\* C2: the call that consumes the second checksum digit of a complete record of a
\* type other than 01 returns ChecksumError iff the two's complement of the sum of
\* length, address bytes, type and payload differs from the checksum field, and
\* Continue otherwise.
C2_ChecksumStatus ==
  (WellFormed /\ LineDone /\ line.rec.typ # IHEX_TYPE_01_END_OF_FILE_RECORD)
    => last.msg = IF SumOk(line.rec) THEN "CONTINUE" ELSE "CHECK_SUM_ERROR"

\* C2 witness: a complete data record with a wrong checksum field is reported
C2_Witness ==
  /\ WellFormed /\ LineDone /\ line.rec.typ = IHEX_TYPE_00_DATA_RECORD /\ line.rec.len = 2
  /\ ~SumOk(line.rec) /\ last.msg = "CHECK_SUM_ERROR"

\* C4: the call that consumes the second checksum digit of a type-01 record returns
\* End, whatever the checksum field.
C4_EndOfFile ==
  (WellFormed /\ LineDone /\ line.rec.typ = IHEX_TYPE_01_END_OF_FILE_RECORD)
    => last.msg = "END"

\* C4 witness: a complete type-01 record with a wrong checksum field
C4_Witness ==
  /\ WellFormed /\ LineDone /\ line.rec.typ = IHEX_TYPE_01_END_OF_FILE_RECORD
  /\ ~SumOk(line.rec) /\ last.msg = "END"

\* the last call completed a payload byte of the line
CompletedPayloadByte ==
  /\ Fed > HeaderChars /\ Fed <= HeaderChars + 2 * line.rec.len
  /\ (Fed - HeaderChars) % 2 = 0
  /\ last.c = Encode(line.rec)[Fed]

\* C5: a call that completes a payload byte of a type-00 record (the last one
\* included) returns the status the callback returned for that byte, and
\* VerificationError is returned only as the callback's status.
C5_CallbackStatus ==
  /\ (WellFormed /\ line.rec.typ = IHEX_TYPE_00_DATA_RECORD /\ reader.funcData # NULL
        /\ CompletedPayloadByte)
       => (last.cb # "none" /\ last.msg = last.cb)
  /\ last.msg = "VERIFICATION_ERROR" => last.cb = "VERIFICATION_ERROR"

\* C5 witness: the callback reports a verification error for the last payload byte
C5_Witness ==
  /\ WellFormed /\ line.rec.typ = IHEX_TYPE_00_DATA_RECORD /\ line.rec.len = 2
  /\ CompletedPayloadByte /\ PayloadDone = 2
  /\ reader.lexer.state = "WAIT_CHECK_SUM"
  /\ last.cb = "VERIFICATION_ERROR" /\ last.msg = "VERIFICATION_ERROR"

\* the extension base a two-byte extension record with payload value val sets
LinearBase(val) == <<val, 0>>
SegmentBase(val) == <<val \div 4096, (val % 4096) * 16>>

\* C8: a complete type-04 record with payload hi,lo leaves the extension base
\* ((hi << 8) | lo) << 16, and the first payload byte of a following type-00 record
\* with load offset A reaches the callback with that base plus A.
C8_ExtendedLinear ==
  /\ (WellFormed /\ LineDone /\ line.rec.len = 2
        /\ line.rec.typ = IHEX_TYPE_04_EXTENDED_LINEAR_ADDRESS_RECORD)
       => reader.lexer.ext_offset = LinearBase(line.rec.data[1] * 256 + line.rec.data[2])
  /\ (WellFormed /\ line.ext.typ = IHEX_TYPE_04_EXTENDED_LINEAR_ADDRESS_RECORD
        /\ line.rec.typ = IHEX_TYPE_00_DATA_RECORD /\ reader.funcData # NULL
        /\ PayloadDone >= 1)
       => (Len(calls) >= 1
           /\ calls[1].address = ExpectedAddress(LinearBase(line.ext.val), line.rec.addr, 0))

\* C8 witness: payload FF FF, then the first byte of a data record at offset 0x0010
\* is delivered at 0xFFFF0010
C8_Witness ==
  /\ WellFormed /\ line.ext = [typ |-> IHEX_TYPE_04_EXTENDED_LINEAR_ADDRESS_RECORD, val |-> 65535]
  /\ line.rec.typ = IHEX_TYPE_00_DATA_RECORD /\ line.rec.addr = 16
  /\ PayloadDone = 1 /\ reader.funcData # NULL
  /\ calls = << [address |-> <<65535, 16>>, data |-> line.rec.data[1]] >>

\* C9: a complete type-02 record with payload hi,lo leaves the extension base
\* ((hi << 8) | lo) * 16; the scaling is applied once, after the second byte (after
\* the first byte the base is hi << 8); the first payload byte of a following
\* type-00 record with load offset A is delivered at that base plus A.
C9_ExtendedSegment ==
  /\ (WellFormed /\ LineDone /\ line.rec.len = 2
        /\ line.rec.typ = IHEX_TYPE_02_EXTENDED_SEGMENT_ADDRESS_RECORD)
       => reader.lexer.ext_offset = SegmentBase(line.rec.data[1] * 256 + line.rec.data[2])
  /\ (WellFormed /\ line.rec.len = 2 /\ PayloadDone = 1 /\ CompletedPayloadByte
        /\ line.rec.typ = IHEX_TYPE_02_EXTENDED_SEGMENT_ADDRESS_RECORD)
       => reader.lexer.ext_offset = <<0, line.rec.data[1] * 256>>
  /\ (WellFormed /\ line.ext.typ = IHEX_TYPE_02_EXTENDED_SEGMENT_ADDRESS_RECORD
        /\ line.rec.typ = IHEX_TYPE_00_DATA_RECORD /\ reader.funcData # NULL
        /\ PayloadDone >= 1)
       => (Len(calls) >= 1
           /\ calls[1].address = ExpectedAddress(SegmentBase(line.ext.val), line.rec.addr, 0))

\* C9 witness: segment value 0x0010 gives base 0x00000100, and the first byte of a
\* data record at offset 0x0005 is delivered at 0x00000105
C9_Witness ==
  /\ WellFormed /\ line.ext = [typ |-> IHEX_TYPE_02_EXTENDED_SEGMENT_ADDRESS_RECORD, val |-> 16]
  /\ line.base0 = <<0, 256>>
  /\ line.rec.typ = IHEX_TYPE_00_DATA_RECORD /\ line.rec.addr = 5
  /\ PayloadDone = 1 /\ reader.funcData # NULL
  /\ calls = << [address |-> <<0, 261>>, data |-> line.rec.data[1]] >>

\* C6: an ihex_Put call with a carriage return or a line feed returns Continue,
\* invokes no callback and leaves the whole Reader unchanged, in every state.
C6_LineEndsIgnored ==
  [][ last'.c \in {CH_CR, CH_LF}
        => (reader' = reader /\ calls' = calls /\ last'.msg = "CONTINUE") ]_vars

\* C6 witness: a carriage return was fed between the two digits of a payload byte
C6_Witness ==
  /\ last.c = CH_CR /\ last.msg = "CONTINUE"
  /\ reader.lexer.state = "WAIT_DATA" /\ reader.lexer.num_expected_characters % 2 = 1

\* C7: in every state other than AwaitMark, an ihex_Put call with a byte outside
\* [0-9A-Fa-f:\r\n] returns InvalidInput.
C7_InvalidByte ==
  [][ (reader.lexer.state # "WAIT_COLON" /\ last'.c \in NoiseChars)
        => last'.msg = "INVALID_INPUT_DATA" ]_vars

\* C7 witness: the byte 'G' was fed inside the payload and rejected
C7_Witness ==
  /\ last.c = 71 /\ last.msg = "INVALID_INPUT_DATA" /\ reader.lexer.state = "WAIT_DATA"

\* the status of the last call of a complete line of a fresh Reader
ExpectedStatus(r) ==
  IF r.typ = IHEX_TYPE_01_END_OF_FILE_RECORD THEN "END"
  ELSE IF SumOk(r) THEN "CONTINUE" ELSE "CHECK_SUM_ERROR"

\* C10: after InvalidInput inside a record, the line fed from the next ':' on is
\* decoded as a fresh record: its payload bytes reach the callback with the right
\* addresses, its fields are parsed from its own digits and its last call reports
\* its own checksum.
C10_Resynchronises ==
  (line.active /\ line.resync)
    => /\ (line.rec.typ = IHEX_TYPE_00_DATA_RECORD /\ reader.funcData # NULL)
            => calls = ExpectedCalls(line.base0)
       /\ LineDone
            => /\ reader.lexer.state = "WAIT_COLON"
               /\ reader.lexer.record_data.reclen = line.rec.len
               /\ reader.lexer.record_data.load_offset = line.rec.addr
               /\ reader.lexer.record_data.rectyp = line.rec.typ
               /\ last.msg = ExpectedStatus(line.rec)

\* a line with the correct checksum in which one character was replaced
Corrupted == line.active /\ line.fresh /\ line.cpos # 0 /\ SumOk(line.rec)
\* the character the replaced one stood for
OrigChar == Encode(line.rec)[line.cpos]
\* the type field as the corrupted line carries it
CorruptedType ==
  IF line.cpos = 8 /\ IsHexDigit(line.cch) THEN HexValue(line.cch) * 16 + (line.rec.typ % 16)
  ELSE IF line.cpos = 9 /\ IsHexDigit(line.cch) THEN (line.rec.typ \div 16) * 16 + HexValue(line.cch)
  ELSE line.rec.typ

\* C3 as stated: whatever single character of a correctly encoded line is replaced
\* by a different character, some call for the line returns InvalidInput or
\* ChecksumError.
C3_AnyCorruptionReported ==
  (Corrupted /\ pending = <<>>) => line.err

\* C3 amended: a replacement by a byte that is no hex digit, CR or LF makes the call
\* for that byte return InvalidInput; a replacement of a digit of the address, type,
\* payload or checksum field by a hex digit of another value makes the call for the
\* last character of the line return ChecksumError, unless the type field reads 01
\* before or after the replacement.
C3_CorruptionReported ==
  /\ (Corrupted /\ ~IsHexDigit(line.cch) /\ line.cch \notin {CH_CR, CH_LF})
       => line.cmsg = "INVALID_INPUT_DATA"
  /\ (Corrupted /\ pending = <<>> /\ line.cpos >= 4
        /\ IsHexDigit(line.cch) /\ HexValue(line.cch) # HexValue(OrigChar)
        /\ line.rec.typ # IHEX_TYPE_01_END_OF_FILE_RECORD
        /\ CorruptedType # IHEX_TYPE_01_END_OF_FILE_RECORD)
       => last.msg = "CHECK_SUM_ERROR"

\* C3 witness: the first digit of the second payload byte was replaced by a digit of
\* another value and the complete line is reported
C3_Witness ==
  /\ Corrupted /\ pending = <<>> /\ line.rec.len = 2 /\ line.cpos = 12
  /\ IsHexDigit(line.cch) /\ HexValue(line.cch) # HexValue(OrigChar)
  /\ line.rec.typ = IHEX_TYPE_00_DATA_RECORD
  /\ last.msg = "CHECK_SUM_ERROR" /\ line.err

\* C11: right after ihex_Begin the state is WAIT_COLON and ext_offset is 0, and
\* from then on every ihex_Put call returns the status, makes the callback
\* invocations and leaves the state and ext_offset that the same call leaves in a
\* freshly begun Reader fed the same bytes.
C11_BeginIsFresh ==
  twin.on =>
    /\ reader.lexer.state = twin.reader.lexer.state
    /\ reader.lexer.ext_offset = twin.reader.lexer.ext_offset
    /\ last.msg = twin.msg
    /\ calls = twin.calls
    /\ last = NoCall => /\ reader.lexer.state = "WAIT_COLON"
                        /\ reader.lexer.ext_offset = Zero32

\* ihex_Begin came after an extension record (the byte position it left is
\* still there), and a data record fed afterwards is complete
C11_Witness ==
  /\ twin.on
  /\ reader.lexer.ext_offset_byte_pos # twin.reader.lexer.ext_offset_byte_pos
  /\ LineDone /\ line.rec.typ = IHEX_TYPE_00_DATA_RECORD
  /\ calls # <<>>

\* C12: a task reads or writes the fields of a FIFO only while it holds that
\* FIFO's own semaphore, in every interleaving of tasks in This_* and All_* calls.
C12_OwnSemaphore ==
  \A t \in Tasks : \A f \in task[t].access : semaphore[f].holder = t

\* the call task T1 is in or has returned from, and the same one step later
K == task["T1"]
K2 == task'["T1"]
\* T1 is about to run the internal operation of op on FIFO A
AtInternal(op) == K.pc = "run" /\ LoopOn(K) /\ K.op = op /\ K.actual_buffer = "A"
\* T1 is about to give the semaphore and return from op
AtReturn(op) == K.pc = "run" /\ ~LoopOn(K) /\ K.op = op

\* C13: after m_cfifo_InitBuffer has returned true the FIFO is in its default
\* state and its semaphore can be taken by the first public operation.
C13_InitUsable ==
  (K.pc = "done" /\ K.op = "InitBuffer" /\ K.ret)
    => /\ fifo["A"] = [ZeroFifo EXCEPT !.semaphore = "handle"]
       /\ semaphore["A"].count > 0

C15_PushContract ==
  [][ /\ AtInternal("This_Push")
        => LET c == fifo["A"]
               refused == c.buffer = NULL \/ c.used_count >= c.buffer_size
           IN /\ K2.success = ~refused
              /\ refused => (fifo' = fifo /\ memory' = memory)
              /\ ~refused => /\ memory' = [memory EXCEPT !["A"][c.wrPtr] = K.args.data]
                             /\ fifo'["A"].used_count = c.used_count + 1
                             /\ fifo' = [fifo EXCEPT !["A"].used_count = @ + 1,
                                                     !["A"].wrPtr = fifo'["A"].wrPtr]
      /\ AtReturn("This_Push") => K2.ret = K.success ]_vars

\* a push refused by a full configured FIFO, and nothing has changed
C15_Witness ==
  /\ K.pc = "done" /\ K.op = "This_Push" /\ ~K.ret
  /\ fifo["A"].buffer # NULL /\ fifo["A"].buffer_size = MaxSize
  /\ fifo["A"].used_count = MaxSize
  /\ fifo = before.fifo /\ memory = before.memory

\* C16: a pop from a FIFO without a buffer (and without a next FIFO), once it
\* has the semaphore, returns true and writes the dummy byte.
C16_PopDummy ==
  (K.pc = "done" /\ K.op \in {"This_Pop", "All_Pop"} /\ K.cfifo = "A" /\ K.took
     /\ before.fifo["A"].buffer = NULL /\ before.fifo["A"].next = NULL)
    => (K.ret /\ K.out = before.fifo["A"].dummy_byte)

\* C17: m_cfifo_ConfigBuffer and m_cfifo_SetDummyByte return true exactly when
\* they have updated the FIFO.
C17_ReturnTellsSuccess ==
  (K.pc = "done" /\ K.op \in {"ConfigBuffer", "SetDummyByte"}) => (K.ret = K.success)

\* the FIFOs from f to the end of the chain, as they were at the call
RECURSIVE ChainFrom(_, _)
ChainFrom(f, n) ==
  IF f = NULL \/ n = 0 THEN <<>> ELSE <<f>> \o ChainFrom(before.fifo[f].next, n - 1)

\* f was configured and not full at the call
HadRoom(f) ==
  /\ before.fifo[f].buffer # NULL
  /\ before.fifo[f].used_count < before.fifo[f].buffer_size

TotalUsage(fs) == fs["A"].used_count + fs["B"].used_count

\* C18: m_cfifo_All_Push, once it has the semaphore, stores the byte in the first
\* FIFO from the given one along next that is configured and not full, in that
\* FIFO only, the usage of the chain grows by one and it returns true; when no
\* FIFO from the given one to the end has room it returns false and no FIFO has
\* changed.
C18_AllPushFirstRoom ==
  (K.pc = "done" /\ K.op = "All_Push" /\ K.took)
    => LET chain == ChainFrom(K.cfifo, Cardinality(Fifos))
           room == {i \in 1 .. Len(chain) : HadRoom(chain[i])}
       IN IF room = {}
            THEN ~K.ret /\ fifo = before.fifo /\ memory = before.memory
            ELSE LET i == CHOOSE j \in room : \A m \in room : j <= m
                     f == chain[i]
                     c == before.fifo[f]
                 IN /\ K.ret
                    /\ memory = [before.memory EXCEPT ![f][c.wrPtr] = K.args.data]
                    /\ fifo = [before.fifo EXCEPT
                                 ![f].used_count = @ + 1,
                                 ![f].wrPtr = (@ + 1) % c.buffer_size]
                    /\ TotalUsage(fifo) = TotalUsage(before.fifo) + 1

\* a push given to A has gone to B, because A was full, and A is as it was
C18_Witness ==
  /\ K.pc = "done" /\ K.op = "All_Push" /\ K.cfifo = "A" /\ K.ret
  /\ before.fifo["A"].buffer # NULL /\ before.fifo["A"].buffer_size > 0
  /\ ~HadRoom("A")
  /\ fifo["B"].used_count = before.fifo["B"].used_count + 1
  /\ fifo["A"] = before.fifo["A"]

\* the number of digits of the field the Reader is in
FieldDigits(lexer) ==
  CASE lexer.state = "WAIT_BYTE_COUNT" -> NUM_BYTE_COUNT_DIGITS
    [] lexer.state = "WAIT_ADDRESS" -> NUM_ADDRESS_DIGITS
    [] lexer.state = "WAIT_TYPE" -> NUM_TYPE_DIGITS
    [] lexer.state = "WAIT_DATA" -> 2 * lexer.record_data.reclen
    [] lexer.state = "WAIT_CHECK_SUM" -> NUM_CHECK_SUM_DIGITS
    [] OTHER -> 0

\* C19: between two ihex_Put calls, while the Reader is inside a field, the
\* number of digits it still expects is at least 1 and at most the digit count
\* of the field, whatever bytes were fed, so it never reaches zero inside a
\* field and never wraps below zero.
C19_DigitsInRange ==
  reader.lexer.state # "WAIT_COLON"
    => /\ reader.lexer.num_expected_characters >= 1
       /\ reader.lexer.num_expected_characters <= FieldDigits(reader.lexer)

\* the step is an ihex_Put call, the one with byte c
PutCall == last' # NoCall
Lex == reader.lexer
Lex2 == reader'.lexer

\* the step goes from one phase to the next one of the cycle, with the digit
\* count of the phase it enters
CycleEdge ==
  LET n2 == Lex2.num_expected_characters
      reclen == Lex2.record_data.reclen
  IN /\ PutCall
     /\ \/ Lex.state = "WAIT_COLON" /\ Lex2.state = "WAIT_BYTE_COUNT"
           /\ n2 = NUM_BYTE_COUNT_DIGITS /\ last'.c = CH_COLON
        \/ Lex.state = "WAIT_BYTE_COUNT" /\ Lex2.state = "WAIT_ADDRESS"
           /\ n2 = NUM_ADDRESS_DIGITS
        \/ Lex.state = "WAIT_ADDRESS" /\ Lex2.state = "WAIT_TYPE" /\ n2 = NUM_TYPE_DIGITS
        \/ Lex.state = "WAIT_TYPE" /\ Lex2.state = "WAIT_DATA"
           /\ reclen > 0 /\ n2 = 2 * reclen
        \/ Lex.state = "WAIT_TYPE" /\ Lex2.state = "WAIT_CHECK_SUM"
           /\ reclen = 0 /\ n2 = NUM_CHECK_SUM_DIGITS
        \/ Lex.state = "WAIT_DATA" /\ Lex2.state = "WAIT_CHECK_SUM"
           /\ n2 = NUM_CHECK_SUM_DIGITS
        \/ Lex.state = "WAIT_CHECK_SUM" /\ Lex2.state = "WAIT_COLON"

RejectedByte == PutCall /\ ~IsHexDigit(last'.c) /\ last'.c \notin {CH_CR, CH_LF}

\* the call has used up one digit slot and changed nothing else
SlotConsumed ==
  /\ reader' = [reader EXCEPT !.lexer.num_expected_characters = U16(@ - 1)]
  /\ last'.msg = "INVALID_INPUT_DATA"
  /\ last'.cb = "none"

\* C21 as stated: inside a field every byte that is neither a hex digit nor a
\* line end uses up a digit slot, returns INVALID_INPUT_DATA and leaves the rest
\* of the Reader unchanged.
C21_InvalidConsumesSlot ==
  [][ (RejectedByte /\ Lex.state # "WAIT_COLON") => SlotConsumed ]_vars

\* C21: inside a field a ':' uses up a digit slot, returns INVALID_INPUT_DATA
\* and leaves the rest of the Reader unchanged; every other byte that is neither
\* a hex digit nor a line end returns INVALID_INPUT_DATA and leaves the whole
\* Reader unchanged, the number of expected digits included.
C21_OnlyMarkConsumesSlot ==
  [][ (RejectedByte /\ Lex.state # "WAIT_COLON")
        => IF last'.c = CH_COLON THEN SlotConsumed
           ELSE /\ reader' = reader
                /\ last'.msg = "INVALID_INPUT_DATA"
                /\ last'.cb = "none" ]_vars

\* a ':' inside the payload has been rejected and has used up a slot, after a
\* stray byte that used none
C21_Witness ==
  /\ line.active /\ line.resync
  /\ last.c = CH_COLON /\ last.msg = "INVALID_INPUT_DATA"
  /\ reader.lexer.state = "WAIT_DATA"
  /\ reader.lexer.num_expected_characters + last.digits + 1
       = 2 * reader.lexer.record_data.reclen

\* the call is made in WAIT_COLON with a byte other than ':'
NoMark == PutCall /\ Lex.state = "WAIT_COLON" /\ last'.c # CH_COLON

\* C22 as stated: in WAIT_COLON every byte other than ':' leaves the Reader
\* unchanged and reports no error.
C22_NoMarkIgnored ==
  [][ NoMark => (reader' = reader /\ last'.cb = "none" /\ last'.msg = "CONTINUE") ]_vars

\* C22: in WAIT_COLON every byte other than ':' leaves the Reader unchanged and
\* invokes no callback; hex digits and line ends return CONTINUE, every other
\* byte returns INVALID_INPUT_DATA.
C22_NoMarkKeepsState ==
  [][ NoMark
        => /\ reader' = reader
           /\ last'.cb = "none"
           /\ last'.msg = IF IsHexDigit(last'.c) \/ last'.c \in {CH_CR, CH_LF}
                            THEN "CONTINUE" ELSE "INVALID_INPUT_DATA" ]_vars

\* a stray byte between two records has been answered with INVALID_INPUT_DATA
C22_Witness ==
  /\ reader.lexer.state = "WAIT_COLON"
  /\ line.active /\ line.fresh /\ pending = <<>>
  /\ last.c \in NoiseChars /\ last.msg = "INVALID_INPUT_DATA"

ExtTypes == {IHEX_TYPE_02_EXTENDED_SEGMENT_ADDRESS_RECORD,
             IHEX_TYPE_04_EXTENDED_LINEAR_ADDRESS_RECORD}

\* the call completes the type field
TypeDone == PutCall /\ Lex.state = "WAIT_TYPE" /\ Lex2.state # "WAIT_TYPE"

\* the call completes a payload byte of an extension record
ExtByteDone ==
  /\ PutCall /\ Lex.state = "WAIT_DATA"
  /\ Lex.record_data.rectyp \in ExtTypes
  /\ Lex2.rec_byte_offset # Lex.rec_byte_offset

\* C23: ext_offset is changed only by ihex_Begin, by the call that completes
\* the type field of a record of type 02 or 04, which sets it to zero whatever
\* the length of the record, and by the calls that complete a payload byte of
\* such a record; every other call leaves it unchanged, so a data record is
\* decoded with the offset it found.
C23_ExtOffsetFrame ==
  [][ /\ ~PutCall => Lex2.ext_offset = Zero32
      /\ (TypeDone /\ Lex2.record_data.rectyp \in ExtTypes) => Lex2.ext_offset = Zero32
      /\ Lex2.ext_offset # Lex.ext_offset
           => \/ ~PutCall
              \/ TypeDone /\ Lex2.record_data.rectyp \in ExtTypes
              \/ ExtByteDone ]_vars

\* the second line, a data record, is decoded with the offset that the first
\* line, an extension record, has left
C23_Witness ==
  /\ line.active /\ line.fresh /\ line.rec.typ = IHEX_TYPE_00_DATA_RECORD
  /\ LineDone /\ line.rec.len > 0
  /\ line.base0 # Zero32
  /\ reader.lexer.ext_offset = line.base0
  /\ reader.funcData # NULL /\ calls # <<>>

\* the call completes a payload byte
ByteDone ==
  PutCall /\ Lex.state = "WAIT_DATA" /\ Lex2.rec_byte_offset # Lex.rec_byte_offset

\* the payload byte of the line that the call completes
LineByte == line.rec.data[Lex.rec_byte_offset + 1]

\* C24: the callback is invoked only by a call that completes a payload byte
\* of a type-00 record. A payload byte of a record of any other type is added to
\* the running checksum, returns CONTINUE and reaches no callback; if the type
\* is not 02 or 04 either, it changes nothing but the checksum and the position
\* in the record. The fields of such a record are parsed like those of a data
\* record.
C24_OnlyDataDispatched ==
  [][ /\ last'.cb # "none"
           => (ByteDone /\ Lex.record_data.rectyp = IHEX_TYPE_00_DATA_RECORD)
      /\ (ByteDone /\ Lex.record_data.rectyp # IHEX_TYPE_00_DATA_RECORD)
           => /\ last'.cb = "none" /\ last'.msg = "CONTINUE"
              /\ Lex.record_data.rectyp = line.rec.typ
              /\ Lex2.calc_chksum = U8(Lex.calc_chksum + LineByte)
      /\ (ByteDone /\ Lex.record_data.rectyp \notin ExtTypes \cup {IHEX_TYPE_00_DATA_RECORD})
           => reader' = [reader EXCEPT
                           !.lexer.calc_chksum = Lex2.calc_chksum,
                           !.lexer.rec_byte_offset = Lex.rec_byte_offset + 1,
                           !.lexer.num_expected_characters = Lex2.num_expected_characters,
                           !.lexer.state = Lex2.state,
                           !.lexer.record_data.data = 0]
      /\ (LineDone /\ line.rec.typ # IHEX_TYPE_00_DATA_RECORD)
           => /\ calls = <<>>
              /\ Lex.state = "WAIT_COLON"
              /\ Lex.record_data.reclen = line.rec.len
              /\ Lex.record_data.load_offset = line.rec.addr
              /\ Lex.record_data.rectyp = line.rec.typ
              /\ Lex.rec_byte_offset = line.rec.len
              /\ last.msg = ExpectedStatus(line.rec) ]_vars

\* a full record of type FF has been fed to a Reader with a callback: its
\* checksum is accepted and the callback was not invoked
C24_Witness ==
  /\ LineDone /\ line.rec.typ = UnknownType /\ line.rec.len = MaxLen
  /\ reader.funcData # NULL
  /\ calls = <<>> /\ last.msg = "CONTINUE"
  /\ reader.lexer.rec_byte_offset = MaxLen

\* the bytes a caller may feed: the hex digits, the mark, line ends, stray bytes
FedBytes == {c \in 0 .. 127 : ihex_IsValidData(c)} \cup {CH_CR, CH_LF} \cup NoiseChars

\* what a call leaves behind apart from its return value
Trace(o) == [reader |-> o.reader, calls |-> o.calls]

\* C25: whatever byte is fed next, the Reader after the call and the callback
\* invocations of the call are the same for every status the callback may
\* return, and a call that has invoked the callback returns the callback's
\* status; so two runs on the same input whose callbacks return different
\* statuses go through the same Reader states and the same invocations.
C25_CallbackStatusOnlyReturned ==
  \A c \in FedBytes :
    /\ \A s1, s2 \in CallbackStatuses :
          {Trace(o) : o \in ihex_Put(reader, c, s1)}
            = {Trace(o) : o \in ihex_Put(reader, c, s2)}
    /\ \A s \in CallbackStatuses : \A o \in ihex_Put(reader, c, s) :
          o.calls # <<>> => o.message = s

\* the callback has refused the first payload byte of a data record and the
\* Reader waits for the digits of the second one
C25_Witness ==
  /\ last.cb = "VERIFICATION_ERROR" /\ last.msg = "VERIFICATION_ERROR"
  /\ line.active /\ line.rec.typ = IHEX_TYPE_00_DATA_RECORD
  /\ Len(calls) = 1
  /\ reader.lexer.state = "WAIT_DATA"
  /\ reader.lexer.rec_byte_offset = 1
  /\ reader.lexer.num_expected_characters = 2 * (line.rec.len - 1)

\* the indices of the FIFO c fit its size
IndicesFit(c) ==
  /\ c.used_count <= c.buffer_size
  /\ c.buffer_size > 0
       => /\ c.rdPtr < c.buffer_size
          /\ c.wrPtr < c.buffer_size
          /\ c.wrPtr = (c.rdPtr + c.used_count) % c.buffer_size

\* C26: once a FIFO has been configured by m_cfifo_ConfigBuffer, after every
\* public function used_count is at most buffer_size and, if buffer_size > 0,
\* rdPtr and wrPtr are below buffer_size and wrPtr = (rdPtr + used_count) mod
\* buffer_size; and no function that works on a configured FIFO divides by a
\* buffer_size of zero when it moves an index.
C26_IndicesFit ==
  [][ /\ \A f \in configured : IndicesFit(fifo[f])
      /\ (K.pc = "run" /\ K2.pc = "run" /\ K.actual_buffer \in configured)
           => K2.divzero = K.divzero ]_vars

\* B is full again after pops and pushes given to A have moved its indices
\* around the end of its array
C26_Witness ==
  /\ configured = Fifos
  /\ K.pc = "done" /\ K.op = "All_Push" /\ K.cfifo = "A" /\ K.ret
  /\ fifo["A"].buffer_size > 0 /\ fifo["A"].used_count = fifo["A"].buffer_size
  /\ fifo["B"].buffer # NULL /\ fifo["B"].buffer_size = MaxSize
  /\ fifo["B"].used_count = MaxSize
  /\ fifo["B"].rdPtr > 0 /\ fifo["B"].wrPtr = fifo["B"].rdPtr

====
